---- MODULE Spec2Model ----
(***************************************************************************)
(* A model of the sandbox credential-isolation bridge:                     *)
(*   - proxy_bridge.py : the Tunnel Bridge (TCP <-> unix socket relay)     *)
(*   - host_proxy.py   : the Host Broker (credential-injecting HTTP proxy) *)
(*   - shim.py         : the Command Shim (envelope client)                *)
(*   - http_proxy.py   : the fetch client proxy (envelope client)          *)
(* Each program is a separate process; each has its own specification      *)
(* (SpecBridge, SpecTunnel, SpecBroker, SpecEnvelope) over the variables   *)
(* of that program, the other programs' variables staying idle.            *)
(***************************************************************************)
EXTENDS Integers, Sequences, FiniteSets, TLC

(***************************************************************************)
(* Bounds                                                                  *)
(***************************************************************************)
\* connections the Tunnel Bridge accepts in one run
MaxConn == 2
\* bytes each endpoint writes on one tunnel connection
MaxBytes == 2
\* bytes written in all on the connections of a bridge run (SpecBridge)
MaxTraffic == 1
\* size of a request to the Host Broker: the characters its path carries
\* after the first segment plus the header lines it sends
MaxReq == 3
\* chunk lines the broker sends before it ends a command (Command Shim)
MaxMsgs == 2
\* clients that connect to one listener
MaxClients == 3
\* local TCP ports
MaxPort == 4
\* bytes of a body that is encoded and decoded
MaxBody == 3
\* header lines of an upstream response
MaxHdrs == 3

\* values of one byte on the tunnel (the relay never looks at them)
Byte == {0, 1}

(***************************************************************************)
(* Generic helpers on sequences                                            *)
(***************************************************************************)
IsPrefix(s, t) == Len(s) <= Len(t) /\ SubSeq(t, 1, Len(s)) = s

VARIABLES
  \* ---- Tunnel Bridge (proxy_bridge.py)
  acceptPc,     \* position of the accept loop: "accept", "connect", "exited"
  cur,          \* connection whose unix socket is being opened (0: none)
  nAccepted,    \* connections accepted so far
  client_conn,  \* per connection: the bridge's accepted TCP socket object
  unix_conn,    \* per connection: the bridge's unix socket object
  endpoint,     \* per connection, per side: the remote application's end
  quota,        \* bytes the remote applications still write in this run
  sent,         \* per connection, per direction: bytes written by the sender
  buf,          \* ... bytes in the bridge's receive buffer of src
  data,         \* ... the chunk the worker holds between recv and sendall
  got,          \* ... bytes handed to dst with sendall
  wpc,          \* ... position of the pipe worker
  wend          \* ... why the worker left its loop: "", "eof", "error"

VARIABLES
  \* ---- Host Broker (host_proxy.py), two runs r that get the same request
  \* and the same upstream behaviour and differ in the credential values
  keys,         \* per run: GOOGLE_API_KEY, OPENAI_API_KEY, ANTHROPIC_API_KEY
  breq,         \* the request being handled: [method, path, headers]
  bpc,          \* per run: position of the handler
  headers,      \* per run: the dict `headers`
  target_url,   \* per run
  auth_header,  \* per run
  auth_value,   \* per run
  res,          \* per run: the upstream response being relayed
  upres,        \* per run: what the upstream answered, and how the read went
  upstream,     \* per run: the requests handed to urlopen, in order
  netcalls,     \* per run: number of requests that went out to the network
  caller        \* per run: the responses written to the caller, in order

VARIABLES
  \* ---- Command Shim (shim.py)
  spc,          \* position of main: "off", "start", "reading", "exited"
  sargs,        \* sys.argv[1:]
  ssent,        \* the bytes written to the transport connection
  sconns,       \* transport connections opened
  sscript,      \* the reply the broker sends: its messages, in order
  swire,        \* the bytes of the reply not yet received
  sst           \* buffer, the bytes written to stdout and stderr, the
                \* diagnostics printed, the exit status (-1: running) and
                \* the number of messages handled

VARIABLES
  \* ---- fetch client (http_proxy.py)
  fpc,          \* position of do_ANY: "off", "start", "reading", "done"
  freq,         \* the HTTP request being handled
  fsent,        \* the bytes written to the transport connection
  fconns,       \* transport connections opened
  fwire,        \* the bytes of the broker's reply not yet received
  fbuf,         \* buffer
  fcaller       \* the responses written to the HTTP caller, in order

VARIABLES
  \* ---- the listener of one program (accepting and serving connections)
  lkind,        \* which program listens
  lcur,         \* the connection the accepting thread works on (0: in accept)
  lconn         \* per client connection: "none", "queued", "handling",
                \* "relaying", "blocked" (for ever), "served"

VARIABLES
  \* ---- start-up of the Tunnel Bridge (proxy_bridge.py)
  startPc,      \* "off", "bind", "listening", "exited"
  tcp_port,     \* the port asked for
  inUse,        \* the local ports that are bound
  tcp_server,   \* the port tcp_server is bound to (0: none)
  printed       \* the lines written to stdout

VARIABLES
  \* ---- the body encoding on its own
  cpc,          \* "off", "plain", "encoded", "decoded"
  cbody,        \* the bytes B
  ctext,        \* the base64 text of B
  cline,        \* the transport line written for a request with body B
  cback         \* the bytes a reader decodes from the text

VARIABLES
  \* ---- the headers of a relayed response on their own
  hpc,          \* "off", "read", "sent"
  hkind,        \* the handler: "host_proxy" or "http_proxy"
  hup,          \* the upstream header lines, in order
  hsent         \* the header lines given to send_header, in order

bridgeVars == <<acceptPc, cur, nAccepted, client_conn, unix_conn, endpoint,
                quota, sent, buf, data, got, wpc, wend>>

brokerVars == <<keys, breq, bpc, headers, target_url, auth_header, auth_value,
                res, upres, upstream, netcalls, caller>>

shimVars == <<spc, sargs, ssent, sconns, sscript, swire, sst>>

fetchVars == <<fpc, freq, fsent, fconns, fwire, fbuf, fcaller>>

listenerVars == <<lkind, lcur, lconn>>

startVars == <<startPc, tcp_port, inUse, tcp_server, printed>>

codecVars == <<cpc, cbody, ctext, cline, cback>>

relayVars == <<hpc, hkind, hup, hsent>>

vars == <<bridgeVars, brokerVars, shimVars, fetchVars, listenerVars, startVars,
          codecVars, relayVars>>

(***************************************************************************)
(* Tunnel Bridge: proxy_bridge.py                                          *)
(***************************************************************************)
Conns == 1..MaxConn
Sides == {"cli", "unx"}
\* c2u: pipe(client_conn, unix_conn); u2c: pipe(unix_conn, client_conn)
Dirs == {"c2u", "u2c"}

SrcSide(d) == IF d = "c2u" THEN "cli" ELSE "unx"
DstSide(d) == IF d = "c2u" THEN "unx" ELSE "cli"
DirFrom(side) == IF side = "cli" THEN "c2u" ELSE "u2c"

\* the bridge's socket object on a side of connection c
Sock(c, side) == IF side = "cli" THEN client_conn[c] ELSE unix_conn[c]

\* src.recv(4096): the first n buffered bytes, and what stays buffered
RecvData(b, n) == SubSeq(b, 1, n)
RecvRestSkip(b, n) == SubSeq(b, n + 2, Len(b))
RecvRest(b, n) == SubSeq(b, n + 1, Len(b))

EmptyDirs == [d \in Dirs |-> <<>>]

BridgeIdle ==
  /\ acceptPc = "accept"
  /\ cur = 0
  /\ nAccepted = 0
  /\ client_conn = [c \in Conns |-> "none"]
  /\ unix_conn = [c \in Conns |-> "none"]
  /\ endpoint = [c \in Conns |-> [s \in Sides |-> "none"]]
  /\ sent = [c \in Conns |-> EmptyDirs]
  /\ buf = [c \in Conns |-> EmptyDirs]
  /\ data = [c \in Conns |-> EmptyDirs]
  /\ got = [c \in Conns |-> EmptyDirs]
  /\ wpc = [c \in Conns |-> [d \in Dirs |-> "none"]]
  /\ wend = [c \in Conns |-> [d \in Dirs |-> ""]]

\* tcp_server.accept() returns a connection
Accept ==
  /\ acceptPc = "accept"
  /\ nAccepted < MaxConn
  /\ nAccepted' = nAccepted + 1
  /\ cur' = nAccepted + 1
  /\ client_conn' = [client_conn EXCEPT ![nAccepted + 1] = "open"]
  /\ endpoint' = [endpoint EXCEPT ![nAccepted + 1]["cli"] = "open"]
  /\ acceptPc' = "connect"
  /\ UNCHANGED <<unix_conn, quota, sent, buf, data, got, wpc, wend>>

\* unix_conn.connect() succeeds; both pipe threads are started
ConnectOk ==
  /\ acceptPc = "connect"
  /\ unix_conn' = [unix_conn EXCEPT ![cur] = "open"]
  /\ endpoint' = [endpoint EXCEPT ![cur]["unx"] = "open"]
  /\ wpc' = [wpc EXCEPT ![cur] = [d \in Dirs |-> "recv"]]
  /\ acceptPc' = "accept"
  /\ cur' = 0
  /\ UNCHANGED <<nAccepted, client_conn, quota, sent, buf, data, got, wend>>

\* `except Exception: print; break`, then bridge_tcp_to_unix returns and the
\* __main__ block ends: the interpreter exits, its daemon threads are stopped
\* where they are and the process's descriptors are released.
LoopBreak ==
  /\ acceptPc' = "exited"
  /\ cur' = 0
  /\ wpc' = [c \in Conns |-> [d \in Dirs |->
               IF wpc[c][d] \in {"recv", "blocked", "send", "closing"}
               THEN "killed"
               ELSE wpc[c][d]]]
  /\ client_conn' = [c \in Conns |->
               IF client_conn[c] = "open" THEN "closed" ELSE client_conn[c]]
  /\ unix_conn' = [c \in Conns |->
               IF unix_conn[c] = "open" THEN "closed" ELSE unix_conn[c]]
  /\ UNCHANGED <<nAccepted, endpoint, quota, sent, buf, data, got, wend>>

\* unix_conn.connect() raises (socket path absent or not accepting)
ConnectFail ==
  /\ acceptPc = "connect"
  /\ LoopBreak

\* tcp_server.accept() raises
AcceptFail ==
  /\ acceptPc = "accept"
  /\ LoopBreak

\* the remote application on a side writes its next byte
EndpointWrite(c, side) ==
  LET d == DirFrom(side) IN
  /\ endpoint[c][side] = "open"
  /\ (Sock(c, side) = "open" \/ wpc[c][d] = "blocked")
  /\ Len(sent[c][d]) < MaxBytes
  /\ quota > 0
  /\ quota' = quota - 1
  /\ \E b \in Byte :
       /\ sent' = [sent EXCEPT ![c][d] = Append(@, b)]
       /\ buf' = [buf EXCEPT ![c][d] = Append(@, b)]
  /\ UNCHANGED <<acceptPc, cur, nAccepted, client_conn, unix_conn, endpoint,
                 data, got, wpc, wend>>

\* the remote application ends its output and keeps reading (shutdown(SHUT_WR))
EndpointShutdown(c, side) ==
  /\ endpoint[c][side] = "open"
  /\ endpoint' = [endpoint EXCEPT ![c][side] = "shut"]
  /\ UNCHANGED <<acceptPc, cur, nAccepted, client_conn, unix_conn,
                 quota, sent, buf, data, got, wpc, wend>>

\* the remote application closes its socket
EndpointClose(c, side) ==
  /\ endpoint[c][side] \in {"open", "shut"}
  /\ endpoint' = [endpoint EXCEPT ![c][side] = "closed"]
  /\ UNCHANGED <<acceptPc, cur, nAccepted, client_conn, unix_conn,
                 quota, sent, buf, data, got, wpc, wend>>

\* pipe: data = src.recv(4096); if not data: break
\* A worker that is "blocked" was inside recv when the other worker closed
\* src: close does not end a recv that is under way, which returns only when
\* the peer sends or ends its output.
PipeRecv(c, d) ==
  /\ wpc[c][d] \in {"recv", "blocked"}
  /\ \/ \* src was closed by the other worker before the call: recv raises
        /\ wpc[c][d] = "recv"
        /\ Sock(c, SrcSide(d)) = "closed"
        /\ wpc' = [wpc EXCEPT ![c][d] = "closing"]
        /\ wend' = [wend EXCEPT ![c][d] = "error"]
        /\ UNCHANGED <<buf, data>>
     \/ \* some buffered bytes are returned, whatever the chunk boundary
        /\ (Sock(c, SrcSide(d)) = "open" \/ wpc[c][d] = "blocked")
        /\ \E n \in 1..Len(buf[c][d]) :
             /\ data' = [data EXCEPT ![c][d] = RecvData(buf[c][d], n)]
             /\ buf' = [buf EXCEPT ![c][d] = RecvRest(buf[c][d], n)]
        /\ wpc' = [wpc EXCEPT ![c][d] = "send"]
        /\ UNCHANGED wend
     \/ \* end-of-stream: the sender has ended its output
        /\ (Sock(c, SrcSide(d)) = "open" \/ wpc[c][d] = "blocked")
        /\ buf[c][d] = <<>>
        /\ endpoint[c][SrcSide(d)] \in {"shut", "closed"}
        /\ wpc' = [wpc EXCEPT ![c][d] = "closing"]
        /\ wend' = [wend EXCEPT ![c][d] = "eof"]
        /\ UNCHANGED <<buf, data>>
  /\ UNCHANGED <<acceptPc, cur, nAccepted, client_conn, unix_conn, endpoint,
                 quota, sent, got>>

\* pipe: dst.sendall(data)
PipeSend(c, d) ==
  /\ wpc[c][d] = "send"
  /\ IF Sock(c, DstSide(d)) = "open" /\ endpoint[c][DstSide(d)] # "closed"
     THEN /\ got' = [got EXCEPT ![c][d] = @ \o data[c][d]]
          /\ wpc' = [wpc EXCEPT ![c][d] = "recv"]
          /\ UNCHANGED wend
     ELSE \* dst closed by the other worker, or the peer is gone: sendall raises
          /\ wpc' = [wpc EXCEPT ![c][d] = "closing"]
          /\ wend' = [wend EXCEPT ![c][d] = "error"]
          /\ UNCHANGED got
  /\ data' = [data EXCEPT ![c][d] = <<>>]
  /\ UNCHANGED <<acceptPc, cur, nAccepted, client_conn, unix_conn, endpoint,
                 quota, sent, buf>>

\* the worker of the other direction
OtherDir(d) == IF d = "c2u" THEN "u2c" ELSE "c2u"

\* pipe: finally: src.close(); dst.close()  (each in its own try/except; a
\* close of a closed socket does nothing).  The other worker, if it is at
\* recv, has either not made the call yet or is inside it.
PipeClose(c, d) ==
  /\ wpc[c][d] = "closing"
  /\ client_conn' = [client_conn EXCEPT ![c] = "closed"]
  /\ unix_conn' = [unix_conn EXCEPT ![c] = "closed"]
  /\ \E inCall \in BOOLEAN :
       wpc' = [wpc EXCEPT ![c][d] = "done",
                          ![c][OtherDir(d)] =
                            IF @ = "recv" /\ inCall THEN "blocked" ELSE @]
  /\ UNCHANGED <<acceptPc, cur, nAccepted, endpoint, quota, sent, buf,
                 data, got, wend>>

\* the steps of one connection: its two endpoints and its two workers
ConnStep(c) ==
  \/ \E side \in Sides : EndpointWrite(c, side)
  \/ \E side \in Sides : EndpointShutdown(c, side)
  \/ \E side \in Sides : EndpointClose(c, side)
  \/ \E d \in Dirs : PipeRecv(c, d)
  \/ \E d \in Dirs : PipeSend(c, d)
  \/ \E d \in Dirs : PipeClose(c, d)

BridgeStep ==
  \/ Accept
  \/ ConnectOk
  \/ ConnectFail
  \/ AcceptFail
  \/ \E c \in Conns : ConnStep(c)

(***************************************************************************)
(* Strings.  A string is a sequence of pieces; a piece is one character,   *)
(* or a literal of the source that is never looked into (a host name, a    *)
(* message text).  Concatenation of strings is \o.  Request paths and      *)
(* header names are spelled character by character.                        *)
(***************************************************************************)
UpperCh == <<"A", "B", "C", "D", "E", "F", "G", "H", "I", "J", "K", "L", "M",
             "N", "O", "P", "Q", "R", "S", "T", "U", "V", "W", "X", "Y", "Z">>
LowerCh == <<"a", "b", "c", "d", "e", "f", "g", "h", "i", "j", "k", "l", "m",
             "n", "o", "p", "q", "r", "s", "t", "u", "v", "w", "x", "y", "z">>

\* str.lower() / str.upper() on one character
Chars == {UpperCh[i] : i \in 1..26} \cup {LowerCh[i] : i \in 1..26}
           \cup {"/", "-", "."}
LowerTable ==
  [ch \in Chars |->
     IF \E i \in 1..26 : UpperCh[i] = ch
     THEN LowerCh[CHOOSE i \in 1..26 : UpperCh[i] = ch] ELSE ch]
UpperTable ==
  [ch \in Chars |->
     IF \E i \in 1..26 : LowerCh[i] = ch
     THEN UpperCh[CHOOSE i \in 1..26 : LowerCh[i] = ch] ELSE ch]
ToLower(ch) == LowerTable[ch]
ToUpper(ch) == UpperTable[ch]

LowerNone(str) == str
\* k.lower()
Lower(str) == [i \in 1..Len(str) |-> ToLower(str[i])]
\* key.capitalize(): first character upper case, the rest lower case
Capitalize(str) ==
  [i \in 1..Len(str) |-> IF i = 1 THEN ToUpper(str[i]) ELSE ToLower(str[i])]

\* str.startswith(prefix)
StartsWith(str, prefix) == IsPrefix(prefix, str)
\* str[n:]
DropFirst(str, n) == SubSeq(str, n + 1, Len(str))
\* `part` occurs in `str`
Contains(str, part) ==
  \E i \in 0..(Len(str) - Len(part)) : SubSeq(str, i + 1, i + Len(part)) = part

(***************************************************************************)
(* dict: a sequence of <<key, value>> in insertion order, keys distinct    *)
(***************************************************************************)
DictHas(d, k) == \E i \in 1..Len(d) : d[i][1] = k
DictGet(d, k) == d[CHOOSE i \in 1..Len(d) : d[i][1] = k][2]
\* d[k] = v: an existing key keeps its place
DictSet(d, k, v) ==
  IF DictHas(d, k)
  THEN [i \in 1..Len(d) |-> IF d[i][1] = k THEN <<k, v>> ELSE d[i]]
  ELSE Append(d, <<k, v>>)
\* del d[k]
DictDel(d, k) == SelectSeq(d, LAMBDA e : e[1] # k)

(***************************************************************************)
(* Host Broker: host_proxy.py                                              *)
(***************************************************************************)
Runs == {1, 2}

\* header names, as a caller may spell them
N_Host == <<"H", "o", "s", "t">>
N_host == <<"h", "o", "s", "t">>
N_Authorization ==
  <<"A", "u", "t", "h", "o", "r", "i", "z", "a", "t", "i", "o", "n">>
N_x_goog_api_key ==
  <<"x", "-", "g", "o", "o", "g", "-", "a", "p", "i", "-", "k", "e", "y">>
N_X_Goog_Api_Key ==
  <<"X", "-", "G", "o", "o", "g", "-", "A", "p", "i", "-", "K", "e", "y">>
N_x_api_key == <<"x", "-", "a", "p", "i", "-", "k", "e", "y">>
N_Content_Length ==
  <<"C", "o", "n", "t", "e", "n", "t", "-", "L", "e", "n", "g", "t", "h">>
\* header names, as an upstream may spell them
N_Content_Type ==
  <<"C", "o", "n", "t", "e", "n", "t", "-", "T", "y", "p", "e">>
N_CONTENT_LENGTH ==
  <<"C", "O", "N", "T", "E", "N", "T", "-", "L", "E", "N", "G", "T", "H">>
N_Transfer_Encoding ==
  <<"T", "r", "a", "n", "s", "f", "e", "r", "-", "E", "n", "c", "o", "d",
    "i", "n", "g">>
N_X_Content_Length ==
  <<"X", "-", "C", "o", "n", "t", "e", "n", "t", "-", "L", "e", "n", "g",
    "t", "h">>
N_content_encoding ==
  <<"c", "o", "n", "t", "e", "n", "t", "-", "e", "n", "c", "o", "d", "i",
    "n", "g">>
N_transfer_encoding ==
  <<"t", "r", "a", "n", "s", "f", "e", "r", "-", "e", "n", "c", "o", "d",
    "i", "n", "g">>
N_content_length ==
  <<"c", "o", "n", "t", "e", "n", "t", "-", "l", "e", "n", "g", "t", "h">>

\* the three path prefixes of do_ANY
P_google == <<"/", "g", "o", "o", "g", "l", "e">>
P_openai == <<"/", "o", "p", "e", "n", "a", "i">>
P_anthropic == <<"/", "a", "n", "t", "h", "r", "o", "p", "i", "c">>
\* first segments that match no prefix
P_unknown == <<"/", "u", "n", "k", "n", "o", "w", "n">>
P_goog == <<"/", "g", "o", "o", "g">>

\* the upstream URLs of do_ANY: scheme, then authority
U_google == <<"https://", "generativelanguage.googleapis.com">>
U_openai == <<"https://", "api.openai.com">>
U_anthropic == <<"https://", "api.anthropic.com">>

\* the methods the handler class defines (do_GET, do_POST, do_PUT)
HandledMethods == {"GET", "POST", "PUT"}

\* ---- the requests a caller sends
Methods == {"GET", "DELETE"}
FirstSegments == {P_google, P_openai, P_anthropic, P_unknown, P_goog}
TailChars == {"/", "X"}
HeaderPool ==
  { <<N_Host, <<"sandbox:8080">>>>,
    <<N_host, <<"sandbox:8080">>>>,
    <<N_Authorization, <<"Bearer ", "caller">>>>,
    <<N_x_goog_api_key, <<"caller">>>>,
    <<N_X_Goog_Api_Key, <<"CALLER">>>>,
    <<N_Content_Length, <<"x">>>> }
\* the header lines of a request, in the order sent
HeaderLists(n) ==
  UNION {{h \in [1..k -> HeaderPool] :
            \A i, j \in 1..k : i # j => h[i] # h[j]} : k \in 0..n}
Requests ==
  UNION {[method : Methods,
          path : {p \o t : p \in FirstSegments, t \in [1..k -> TailChars]},
          headers : HeaderLists(MaxReq - k)] : k \in 0..MaxReq}

\* ---- the credentials of the two runs
CleanKeys(n) == [google |-> <<"G", n>>, openai |-> <<"O", n>>,
                 anthropic |-> <<"A", n>>]
\* keys that end with a line feed (a value read from a file)
NewlineKeys(n) == [google |-> <<"G", n, "\n">>, openai |-> <<"O", n, "\n">>,
                   anthropic |-> <<"A", n, "\n">>]
KeyChoices ==
  { [r \in Runs |-> CleanKeys(IF r = 1 THEN "1" ELSE "2")],
    [r \in Runs |-> NewlineKeys(IF r = 1 THEN "1" ELSE "2")] }

\* ---- what the upstream does with a request that reaches it
UpBodies == {<<"b">>}
UpHeaders ==
  { <<>>,
    << <<N_Content_Type, <<"t">>>>, <<N_Content_Length, <<"1">>>> >> }
UpstreamOutcomes ==
  [kind : {"response"}, status : {200}, headers : UpHeaders, body : UpBodies]
    \cup [kind : {"response"}, status : {404, 500}, headers : {<<>>},
          body : UpBodies]
    \cup {[kind |-> "unreachable", status |-> 0, headers |-> <<>>,
           body |-> <<>>]}
NoRes == [kind |-> "none", status |-> 0, headers |-> <<>>, body |-> <<>>]
NoUpres == [kind |-> "none", status |-> 0, headers |-> <<>>, body |-> <<>>,
            read |-> "none"]
Upres(out, read) ==
  [kind |-> out.kind, status |-> out.status, headers |-> out.headers,
   body |-> out.body, read |-> read]

CodeStr(code) ==
  CASE code = 200 -> "200" [] code = 404 -> "404" [] code = 500 -> "500"
    [] OTHER -> "?"

\* dict(self.headers): every key as spelled, in order; the value of a key is
\* that of the first header line whose name matches it in any letter case
FirstValue(lines, k) ==
  LET low == Lower(k) IN
  lines[CHOOSE i \in 1..Len(lines) :
          /\ Lower(lines[i][1]) = low
          /\ \A j \in 1..(i - 1) : Lower(lines[j][1]) # low][2]
RECURSIVE DictOfLines(_, _)
DictOfLines(lines, n) ==
  IF n = 0 THEN <<>>
  ELSE DictSet(DictOfLines(lines, n - 1), lines[n][1],
               FirstValue(lines, lines[n][1]))
HeadersDict(lines) == DictOfLines(lines, Len(lines))

\* int(headers.get("Content-Length", 0)) raises ValueError
Digits == {"0", "1", "2", "3", "4", "5", "6", "7", "8", "9"}
IsInt(v) == v # <<>> /\ \A i \in 1..Len(v) : v[i] \in Digits
ContentLengthRaises(d) ==
  DictHas(d, N_Content_Length) /\ ~IsInt(DictGet(d, N_Content_Length))

\* the if/elif chain of do_ANY: <<target_url, auth_header, auth_value>>
Classify(path, k) ==
  IF StartsWith(path, P_google)
  THEN <<U_google \o DropFirst(path, 7), N_x_goog_api_key, k.google>>
  ELSE IF StartsWith(path, P_openai)
  THEN <<U_openai \o DropFirst(path, 7), N_Authorization,
         <<"Bearer ">> \o k.openai>>
  ELSE IF StartsWith(path, P_anthropic)
  THEN <<U_anthropic \o DropFirst(path, 10), N_x_api_key, k.anthropic>>
  ELSE <<<<>>, <<>>, <<>>>>

\* headers[auth_header] = auth_value; if "Host" in headers: del headers["Host"]
Inject(d, name, value) ==
  LET set == DictSet(d, name, value) IN
  IF DictHas(set, N_Host) THEN DictDel(set, N_Host) ELSE set

\* urllib.request.Request(headers=headers): each key is stored capitalized,
\* a later key replacing an earlier one that capitalizes to the same name
RECURSIVE RequestHeaders(_, _)
RequestHeaders(d, n) ==
  IF n = 0 THEN <<>>
  ELSE DictSet(RequestHeaders(d, n - 1), Capitalize(d[n][1]), d[n][2])

\* http.client refuses a header value with a line feed that starts no
\* continuation line: ValueError("Invalid header value %r")
IllegalValue(v) ==
  \E i \in 1..Len(v) :
    v[i] = "\n" /\ (i = Len(v) \/ v[i + 1] \notin {" ", "\t"})
HasIllegalValue(hs) == \E i \in 1..Len(hs) : IllegalValue(hs[i][2])
FirstIllegal(hs) ==
  hs[CHOOSE i \in 1..Len(hs) :
       /\ IllegalValue(hs[i][2])
       /\ \A j \in 1..(i - 1) : ~IllegalValue(hs[j][2])][2]
\* repr() of a bytes value: a line feed is written as backslash, n
Repr(v) == [i \in 1..Len(v) |-> IF v[i] = "\n" THEN "\\n" ELSE v[i]]

\* urlopen raises HTTPError for a status outside 200..299
IsHttpError(status) == ~(200 <= status /\ status < 300)

\* the response-side filter of do_ANY
Stripped == {N_content_encoding, N_transfer_encoding, N_content_length}
RelayedHeaders(hs) == SelectSeq(hs, LAMBDA e : Lower(e[1]) \notin Stripped)

\* self.send_error(code, message)
ErrorResponse(code, message) ==
  [kind |-> "error", status |-> code, message |-> message, headers |-> <<>>,
   body |-> <<>>]

NoRequest == [method |-> "", path |-> <<>>, headers |-> <<>>]

BrokerIdle ==
  /\ breq = NoRequest
  /\ bpc = [r \in Runs |-> "idle"]
  /\ headers = [r \in Runs |-> <<>>]
  /\ target_url = [r \in Runs |-> <<>>]
  /\ auth_header = [r \in Runs |-> <<>>]
  /\ auth_value = [r \in Runs |-> <<>>]
  /\ res = [r \in Runs |-> NoRes]
  /\ upres = [r \in Runs |-> NoUpres]
  /\ upstream = [r \in Runs |-> <<>>]
  /\ netcalls = [r \in Runs |-> 0]
  /\ caller = [r \in Runs |-> <<>>]

\* lock step: every run at position `at` takes the step, the others wait
At(at) == \E r \in Runs : bpc[r] = at
Step(at, old, new(_)) == [r \in Runs |-> IF bpc[r] = at THEN new(r) ELSE old[r]]

\* a request arrives; BaseHTTPRequestHandler looks up do_<METHOD> and answers
\* 501 itself when the class has none
Receive ==
  /\ \A r \in Runs : bpc[r] = "idle"
  /\ \E request \in Requests :
       /\ breq' = request
       /\ IF request.method \in HandledMethods
          THEN /\ bpc' = [r \in Runs |-> "classify"]
               /\ caller' = caller
          ELSE /\ bpc' = [r \in Runs |-> "done"]
               /\ caller' = [r \in Runs |->
                    <<ErrorResponse(501, <<"Unsupported method">>)>>]
  /\ UNCHANGED <<keys, headers, target_url, auth_header, auth_value, res,
                 upres, upstream, netcalls>>

\* do_ANY, lines 15-41: read the request, pick the provider, or answer 404
do_ANY_Classify ==
  /\ At("classify")
  /\ LET d == HeadersDict(breq.headers)
         raises == ContentLengthRaises(d)
         cls == [r \in Runs |->
                   IF raises THEN <<<<>>, <<>>, <<>>>>
                   ELSE Classify(breq.path, keys[r])]
         nomatch == [r \in Runs |-> cls[r][1] = <<>>]
     IN
     /\ headers' = Step("classify", headers, LAMBDA r : d)
     /\ target_url' = Step("classify", target_url, LAMBDA r : cls[r][1])
     /\ auth_header' = Step("classify", auth_header, LAMBDA r : cls[r][2])
     /\ auth_value' = Step("classify", auth_value, LAMBDA r : cls[r][3])
     /\ caller' = Step("classify", caller, LAMBDA r :
          IF raises
          THEN Append(caller[r],
                      ErrorResponse(502, <<"invalid literal for int()">>))
          ELSE IF nomatch[r]
          THEN Append(caller[r], ErrorResponse(404, <<"Provider Not Found">>))
          ELSE caller[r])
     /\ bpc' = Step("classify", bpc, LAMBDA r :
          IF raises \/ nomatch[r] THEN "done" ELSE "open")
  /\ UNCHANGED <<keys, breq, res, upres, upstream, netcalls>>

\* do_ANY, lines 43-51: inject the credential, drop Host, build the Request
\* and open it; `out` is what the upstream does if the request reaches it
do_ANY_Open ==
  /\ At("open")
  /\ LET injected == [r \in Runs |->
                        Inject(headers[r], auth_header[r], auth_value[r])]
         hs == [r \in Runs |-> RequestHeaders(injected[r], Len(injected[r]))]
         invalid == [r \in Runs |-> HasIllegalValue(hs[r])]
         request == [r \in Runs |->
                       [url |-> target_url[r], method |-> breq.method,
                        headers |-> hs[r]]]
     IN
     \E out \in UpstreamOutcomes :
       LET failed == [r \in Runs |->
                        \/ invalid[r]
                        \/ out.kind = "unreachable"
                        \/ IsHttpError(out.status)]
           message(r) ==
             IF invalid[r]
             THEN <<"Invalid header value b'">> \o Repr(FirstIllegal(hs[r]))
                    \o <<"'">>
             ELSE IF out.kind = "unreachable"
             THEN <<"<urlopen error ", "Connection refused", ">">>
             ELSE <<"HTTP Error ", CodeStr(out.status), ": ", "reason">>
       IN
       /\ headers' = Step("open", headers, LAMBDA r : injected[r])
       /\ upstream' = Step("open", upstream,
                           LAMBDA r : Append(upstream[r], request[r]))
       /\ netcalls' = Step("open", netcalls, LAMBDA r :
            IF invalid[r] THEN netcalls[r] ELSE netcalls[r] + 1)
       /\ res' = Step("open", res, LAMBDA r : IF failed[r] THEN NoRes ELSE out)
       /\ upres' = Step("open", upres, LAMBDA r :
            IF invalid[r] THEN NoUpres ELSE Upres(out, "none"))
       /\ caller' = Step("open", caller, LAMBDA r :
            IF failed[r] THEN Append(caller[r], ErrorResponse(502, message(r)))
            ELSE caller[r])
       /\ bpc' = Step("open", bpc, LAMBDA r :
            IF failed[r] THEN "done" ELSE "head")
  /\ UNCHANGED <<keys, breq, target_url, auth_header, auth_value>>

\* do_ANY, lines 52-60: status line and the filtered headers
do_ANY_RelayHead ==
  /\ At("head")
  /\ caller' = Step("head", caller, LAMBDA r :
       Append(caller[r], [kind |-> "relay", status |-> res[r].status,
                          message |-> <<>>,
                          headers |-> RelayedHeaders(res[r].headers),
                          body |-> <<>>]))
  /\ bpc' = Step("head", bpc, LAMBDA r : "body")
  /\ UNCHANGED <<keys, breq, headers, target_url, auth_header, auth_value, res,
                 upres, upstream, netcalls>>

\* res.read(): the body of the upstream response
ReadBodyNothing(response) == <<>>
ReadBody(response) == response.body

\* do_ANY, line 61: self.wfile.write(res.read()); a read that fails is
\* caught by the handler's except, which sends 502
do_ANY_RelayBody ==
  /\ At("body")
  /\ \E readOk \in BOOLEAN :
       /\ caller' = Step("body", caller, LAMBDA r :
            IF readOk
            THEN [caller[r] EXCEPT ![Len(caller[r])].body = ReadBody(res[r])]
            ELSE Append(caller[r], ErrorResponse(502, <<"IncompleteRead">>)))
       /\ upres' = Step("body", upres, LAMBDA r :
            [upres[r] EXCEPT !.read = IF readOk THEN "ok" ELSE "failed"])
  /\ bpc' = Step("body", bpc, LAMBDA r : "done")
  /\ UNCHANGED <<keys, breq, headers, target_url, auth_header, auth_value, res,
                 upstream, netcalls>>

\* the handler returns; serve_forever waits for the next request
Finish ==
  /\ \A r \in Runs : bpc[r] = "done"
  /\ breq' = NoRequest
  /\ bpc' = [r \in Runs |-> "idle"]
  /\ headers' = [r \in Runs |-> <<>>]
  /\ target_url' = [r \in Runs |-> <<>>]
  /\ auth_header' = [r \in Runs |-> <<>>]
  /\ auth_value' = [r \in Runs |-> <<>>]
  /\ res' = [r \in Runs |-> NoRes]
  /\ upres' = [r \in Runs |-> NoUpres]
  /\ upstream' = [r \in Runs |-> <<>>]
  /\ netcalls' = [r \in Runs |-> 0]
  /\ caller' = [r \in Runs |-> <<>>]
  /\ UNCHANGED keys

BrokerStep ==
  \/ Receive
  \/ do_ANY_Classify
  \/ do_ANY_Open
  \/ do_ANY_RelayHead
  \/ do_ANY_RelayBody
  \/ Finish

(***************************************************************************)
(* Envelope encoding: JSON lines and base64                                *)
(***************************************************************************)
DigitCh == <<"0", "1", "2", "3", "4", "5", "6", "7", "8", "9">>

\* str(n) for n >= 0, and int(digits)
RECURSIVE DecStr(_)
DecStr(n) ==
  IF n < 10 THEN <<DigitCh[n + 1]>>
  ELSE Append(DecStr(n \div 10), DigitCh[(n % 10) + 1])
IsDigit(ch) == \E i \in 1..10 : DigitCh[i] = ch
DigitVal(ch) == (CHOOSE i \in 1..10 : DigitCh[i] = ch) - 1
RECURSIVE ParseDec(_)
ParseDec(ds) ==
  IF Len(ds) = 0 THEN 0
  ELSE 10 * ParseDec(SubSeq(ds, 1, Len(ds) - 1)) + DigitVal(ds[Len(ds)])

\* the base64 alphabet, and the padding character
B64Alphabet == UpperCh \o LowerCh \o DigitCh \o <<"+", "/">>
B64Pad == "="
B64Ch(n) == B64Alphabet[n + 1]
B64ValShifted(ch) == CHOOSE i \in 1..64 : B64Alphabet[i] = ch
B64Val(ch) == (CHOOSE i \in 1..64 : B64Alphabet[i] = ch) - 1
IsB64Ch(ch) == \E i \in 1..64 : B64Alphabet[i] = ch

\* base64.b64encode(bytes): three bytes give four characters
RECURSIVE B64Encode(_)
B64Encode(bs) ==
  IF Len(bs) = 0 THEN <<>>
  ELSE IF Len(bs) = 1 THEN
    LET n == bs[1] * 65536 IN
    <<B64Ch(n \div 262144), B64Ch((n \div 4096) % 64), B64Pad, B64Pad>>
  ELSE IF Len(bs) = 2 THEN
    LET n == bs[1] * 65536 + bs[2] * 256 IN
    <<B64Ch(n \div 262144), B64Ch((n \div 4096) % 64), B64Ch((n \div 64) % 64),
      B64Pad>>
  ELSE
    LET n == bs[1] * 65536 + bs[2] * 256 + bs[3] IN
    <<B64Ch(n \div 262144), B64Ch((n \div 4096) % 64), B64Ch((n \div 64) % 64),
      B64Ch(n % 64)>> \o B64Encode(SubSeq(bs, 4, Len(bs)))

\* base64.b64decode(text) first drops what is not of the alphabet
B64Clean(cs) == SelectSeq(cs, LAMBDA ch : IsB64Ch(ch) \/ ch = B64Pad)

\* base64.b64decode(text) raises binascii.Error (wrong length or padding)
B64Raises(cs) ==
  LET t == B64Clean(cs) IN
  \/ Len(t) % 4 # 0
  \/ \E i \in 1..Len(t) :
       /\ t[i] = B64Pad
       /\ ~(i > Len(t) - 2 /\ \A j \in (i + 1)..Len(t) : t[j] = B64Pad)

\* four characters give up to three bytes
RECURSIVE B64Quads(_)
B64Quads(cs) ==
  IF Len(cs) = 0 THEN <<>>
  ELSE
    LET v(i) == IF cs[i] = B64Pad THEN 0 ELSE B64Val(cs[i])
        n == v(1) * 262144 + v(2) * 4096 + v(3) * 64 + v(4)
        all == <<n \div 65536, (n \div 256) % 256, n % 256>>
        keep == IF cs[3] = B64Pad THEN 1 ELSE IF cs[4] = B64Pad THEN 2 ELSE 3
    IN SubSeq(all, 1, keep) \o B64Quads(SubSeq(cs, 5, Len(cs)))

\* base64.b64decode(text)
B64Decode(cs) == B64Quads(B64Clean(cs))

NL == "\n"

\* the text of a JSON string: a line feed is written as backslash, n
JEscape(str) == [i \in 1..Len(str) |-> IF str[i] = NL THEN "\\n" ELSE str[i]]
JStr(str) == <<"\"">> \o JEscape(str) \o <<"\"">>
\* a JSON list of strings
RECURSIVE JItems(_)
JItems(list) ==
  IF Len(list) = 0 THEN <<>>
  ELSE IF Len(list) = 1 THEN JStr(list[1])
  ELSE JStr(list[1]) \o <<", ">> \o JItems(Tail(list))
JList(list) == <<"[">> \o JItems(list) \o <<"]">>
\* json.dumps(obj) of an object given as <<key, encoded value>> pairs
RECURSIVE JMembers(_)
JMembers(obj) ==
  IF Len(obj) = 0 THEN <<>>
  ELSE JStr(obj[1][1]) \o <<": ">> \o obj[1][2]
         \o (IF Len(obj) = 1 THEN <<>> ELSE <<", ">> \o JMembers(Tail(obj)))
JsonDumps(obj) == <<"{">> \o JMembers(obj) \o <<"}">>

\* ---- the reply lines of the broker, as they are on the wire
J_stdout == "{\"type\": \"stdout\", \"data\": \""
J_stderr == "{\"type\": \"stderr\", \"data\": \""
J_exit == "{\"type\": \"exit\", \"code\": "
J_error == "{\"type\": \"error\", \"message\": \""
J_strEnd == "\"}"
J_end == "}"
\* an exit message without its code
J_exitNoCode == "{\"type\": \"exit\"}"
\* a byte that is not UTF-8 text (0xff)
BadByte == "\\xff"
\* data.decode("utf-8") raises UnicodeDecodeError
Utf8Raises(bytes) == \E i \in 1..Len(bytes) : bytes[i] = BadByte

\* one reply message as a line without its line feed
EncodeMsg(msg) ==
  CASE msg.type = "stdout" -> <<J_stdout>> \o B64Encode(msg.data) \o <<J_strEnd>>
    [] msg.type = "stderr" -> <<J_stderr>> \o B64Encode(msg.data) \o <<J_strEnd>>
    [] msg.type = "exit" -> <<J_exit>> \o DecStr(msg.code) \o <<J_end>>
    [] msg.type = "error" -> <<J_error>> \o JEscape(msg.text) \o <<J_strEnd>>
    [] msg.type = "badb64" -> <<J_stdout, "Y", J_strEnd>>
    [] msg.type = "blank" -> <<" ">>
    [] msg.type = "nocode" -> <<J_exitNoCode>>
    [] msg.type = "badutf8" -> <<"{oops", BadByte>>
    [] OTHER -> <<"{oops">>

\* the lines of a script, each but possibly the last ended by a line feed
RECURSIVE Wire(_, _)
Wire(msgs, lastNl) ==
  IF Len(msgs) = 0 THEN <<>>
  ELSE EncodeMsg(msgs[1])
         \o (IF Len(msgs) > 1 \/ lastNl THEN <<NL>> ELSE <<>>)
         \o Wire(Tail(msgs), lastNl)

Msg(type, bytes, code, text) ==
  [type |-> type, data |-> bytes, code |-> code, text |-> text]
BadMsg == Msg("raise", <<>>, 0, <<>>)

\* msg = json.loads(line) followed by the reads msg["type"], msg["data"],
\* msg["code"], msg["message"] and b64decode: the message, or BadMsg when
\* any of them raises
JsonLoads(line) ==
  LET n == Len(line)
      mid == SubSeq(line, 2, n - 1)
  IN
  IF n < 2 THEN BadMsg
  ELSE IF line[1] \in {J_stdout, J_stderr} /\ line[n] = J_strEnd
  THEN IF B64Raises(mid) THEN BadMsg
       ELSE Msg(IF line[1] = J_stdout THEN "stdout" ELSE "stderr",
                B64Decode(mid), 0, <<>>)
  ELSE IF line[1] = J_exit /\ line[n] = J_end /\ n > 2
          /\ \A i \in 1..Len(mid) : IsDigit(mid[i])
  THEN Msg("exit", <<>>, ParseDec(mid), <<>>)
  ELSE IF line[1] = J_error /\ line[n] = J_strEnd
  THEN Msg("error", <<>>, 0, mid)
  ELSE BadMsg

(***************************************************************************)
(* Command Shim: shim.py                                                   *)
(***************************************************************************)
\* sys.argv[1:]
ShimArgs == { << <<"status">>, <<"a", NL, "b">> >> }

\* the dict `req` of main, as json.dumps writes it
ShimRequest(args) ==
  << << <<"command">>, JStr(<<"gh">>)>>,
     << <<"args">>, JList(args)>>,
     << <<"cwd">>, JStr(<<"/work">>)>>,
     << <<"env">>, JsonDumps(<< << <<"GH_TOKEN">>, JStr(<<>>)>> >>)>> >>

\* ---- what the broker answers
ExitCodes == {0, 7, 255}
ChunkMsgs == { Msg("stdout", <<97>>, 0, <<>>),
               Msg("stderr", <<98, 10>>, 0, <<>>) }
\* lines that cannot be parsed or dispatched: malformed JSON, bad base64, a
\* missing member, bytes that are not text
SkippedMsgs == { Msg("garbage", <<>>, 0, <<>>), Msg("badb64", <<>>, 0, <<>>),
                 Msg("nocode", <<>>, 0, <<>>), Msg("badutf8", <<>>, 0, <<>>) }
EndMsgs == {Msg("exit", <<>>, c, <<>>) : c \in ExitCodes}
             \cup {Msg("error", <<>>, 0, <<"boom">>)}
\* up to MaxMsgs lines, one of them at most a line that cannot be handled,
\* then possibly an end message, then possibly one more chunk; the last line
\* may lack its line feed
Bodies ==
  {b \in UNION {[1..k -> ChunkMsgs \cup SkippedMsgs] : k \in 0..MaxMsgs} :
     \A i, j \in 1..Len(b) : (b[i] \in SkippedMsgs /\ b[j] \in SkippedMsgs)
                               => i = j}
Scripts ==
  {[msgs |-> b \o e \o t, nl |-> nl] :
     b \in Bodies,
     e \in {<<>>} \cup {<<m>> : m \in EndMsgs},
     t \in {<<>>, <<Msg("stdout", <<99>>, 0, <<>>)>>},
     nl \in BOOLEAN}

\* sys.exit(code): the status the parent sees is the low byte
ExitStatusOne(code) == 1
ExitStatus(code) == code % 256

\* line.strip() is empty
IsBlank(line) == \A i \in 1..Len(line) : line[i] \in {" ", "\t", "\r"}

\* buffer.split("\n", 1) cuts at the first line feed
LastNewline(buffer) ==
  CHOOSE k \in 1..Len(buffer) :
    buffer[k] = NL /\ \A j \in (k + 1)..Len(buffer) : buffer[j] # NL
FirstNewline(buffer) ==
  CHOOSE k \in 1..Len(buffer) :
    buffer[k] = NL /\ \A j \in 1..(k - 1) : buffer[j] # NL

\* the body of `while "\n" in buffer` for one line
Dispatch(line, st) ==
  IF IsBlank(line) THEN st
  ELSE LET msg == JsonLoads(line) IN
    CASE msg.type = "stdout" ->
           [st EXCEPT !.out = @ \o msg.data, !.n = @ + 1]
      [] msg.type = "stderr" ->
           [st EXCEPT !.err = @ \o msg.data, !.n = @ + 1]
      [] msg.type = "exit" ->
           [st EXCEPT !.code = ExitStatus(msg.code), !.n = @ + 1]
      [] msg.type = "error" ->
           [st EXCEPT !.code = 1,
                      !.diag = @ \o <<"[Shim Error] ">> \o msg.text,
                      !.n = @ + 1]
      [] OTHER -> st

\* while "\n" in buffer: line, buffer = buffer.split("\n", 1); ...  until
\* sys.exit leaves the loops
RECURSIVE Drain(_)
Drain(st) ==
  IF st.code # -1 \/ ~(\E i \in 1..Len(st.buf) : st.buf[i] = NL) THEN st
  ELSE LET i == FirstNewline(st.buf)
       IN Drain(Dispatch(SubSeq(st.buf, 1, i - 1),
                         [st EXCEPT !.buf = SubSeq(st.buf, i + 1, Len(st.buf))]))

ShimOff ==
  /\ spc = "off"
  /\ sargs = <<>>
  /\ ssent = <<>>
  /\ sconns = 0
  /\ sscript = [msgs |-> <<>>, nl |-> TRUE]
  /\ swire = <<>>
  /\ sst = [buf |-> <<>>, out |-> <<>>, err |-> <<>>, diag |-> <<>>,
            code |-> -1, n |-> 0]

\* main() up to the try
ShimStart ==
  /\ spc = "start"
  /\ sargs \in ShimArgs
  /\ ssent = <<>>
  /\ sconns = 0
  /\ sscript = [msgs |-> <<>>, nl |-> TRUE]
  /\ swire = <<>>
  /\ sst = [buf |-> <<>>, out |-> <<>>, err |-> <<>>, diag |-> <<>>,
            code |-> -1, n |-> 0]

\* client.connect(socket_path); client.sendall(json.dumps(req).encode());
\* the broker's whole reply is fixed from here on
ShimConnect ==
  /\ spc = "start"
  /\ sconns' = sconns + 1
  /\ ssent' = ssent \o JsonDumps(ShimRequest(sargs))
  /\ \E script \in Scripts :
       /\ sscript' = script
       /\ swire' = Wire(script.msgs, script.nl)
  /\ spc' = "reading"
  /\ UNCHANGED <<sargs, sst>>

\* client.connect raises: the outer except prints and exits 1
ShimConnectFail ==
  /\ spc = "start"
  /\ sst' = [sst EXCEPT !.code = 1, !.diag = @ \o <<"[Shim] Failed: ">>]
  /\ spc' = "exited"
  /\ UNCHANGED <<sargs, ssent, sconns, sscript, swire>>

\* data = client.recv(4096) returns the next n bytes; buffer += data.decode();
\* then every complete line of the buffer is handled.  When decode raises, the
\* outer except prints and exits 1.
ShimRecv ==
  /\ spc = "reading"
  /\ \E n \in 1..Len(swire) :
       LET bytes == SubSeq(swire, 1, n)
           st == IF Utf8Raises(bytes)
                 THEN [sst EXCEPT !.code = 1,
                                  !.diag = @ \o <<"[Shim] Failed: ">>]
                 ELSE Drain([sst EXCEPT !.buf = @ \o bytes])
       IN
       /\ swire' = SubSeq(swire, n + 1, Len(swire))
       /\ sst' = st
       /\ spc' = IF st.code # -1 THEN "exited" ELSE "reading"
  /\ UNCHANGED <<sargs, ssent, sconns, sscript>>

\* a reader that, unlike main, handles what is left in the buffer at
\* end-of-stream as a last line
ShimEofFlush ==
  /\ spc = "reading"
  /\ swire = <<>>
  /\ sst' = LET st == Drain([sst EXCEPT !.buf = @ \o <<NL>>]) IN
            [st EXCEPT !.code = IF @ = -1 THEN 0 ELSE @]
  /\ spc' = "exited"
  /\ UNCHANGED <<sargs, ssent, sconns, sscript, swire>>

\* recv returns b"": break, main returns, the interpreter exits with 0
ShimEof ==
  /\ spc = "reading"
  /\ swire = <<>>
  /\ sst' = [sst EXCEPT !.code = 0]
  /\ spc' = "exited"
  /\ UNCHANGED <<sargs, ssent, sconns, sscript, swire>>

\* recv raises (connection reset): the outer except prints and exits 1
ShimRecvFail ==
  /\ spc = "reading"
  /\ sst' = [sst EXCEPT !.code = 1, !.diag = @ \o <<"[Shim] Failed: ">>]
  /\ spc' = "exited"
  /\ UNCHANGED <<sargs, ssent, sconns, sscript, swire>>

ShimStep ==
  \/ ShimConnect
  \/ ShimConnectFail
  \/ ShimRecv
  \/ ShimEof
  \/ ShimRecvFail

(***************************************************************************)
(* Fetch client: http_proxy.py                                             *)
(***************************************************************************)
P_http == <<"h", "t", "t", "p">>
FetchPaths == { <<"/", "v">>, P_http \o <<":", "/", "/", "x", "/", "v">> }
FetchHeaderLists ==
  { <<>>,
    << <<N_host, <<"a", "p", "i">>>> >>,
    << <<N_Host, <<"a", "p", "i">>>>, <<N_Content_Length, <<"2">>>> >>,
    << <<N_Content_Length, <<"x">>>> >> }
\* the HTTP requests of the sandboxed client; `body` is what it sends after
\* the header lines
FetchRequests ==
  [method : {"GET", "POST"}, path : FetchPaths, headers : FetchHeaderLists,
   body : {<<104, 10>>}]
NoFetch == [method |-> "", path |-> <<>>, headers |-> <<>>, body |-> <<>>]

\* self.headers.get(name, default): the first line of that name, any case
HeaderGet(lines, name, default) ==
  IF \E i \in 1..Len(lines) : Lower(lines[i][1]) = Lower(name)
  THEN FirstValue(lines, name) ELSE default

\* self.rfile.read(content_length) if content_length > 0 else None
FetchBody(request) ==
  LET n == ParseDec(HeaderGet(request.headers, N_Content_Length, <<"0">>)) IN
  SubSeq(request.body, 1, IF n < Len(request.body) THEN n ELSE Len(request.body))

\* url = path if path.startswith("http") else f"https://{host}{path}"
FetchUrl(request) ==
  IF StartsWith(request.path, P_http) THEN request.path
  ELSE <<"https://">> \o HeaderGet(request.headers, N_Host, <<"localhost">>)
         \o request.path

\* the members of a dict of strings
JDict(d) == [i \in 1..Len(d) |-> <<d[i][1], JStr(d[i][2])>>]

\* the dict `req` of do_ANY, as json.dumps writes it
FetchEnvelope(request) ==
  LET body == FetchBody(request) IN
  << << <<"type">>, JStr(<<"proxy_fetch">>)>>,
     << <<"url">>, JStr(FetchUrl(request))>>,
     << <<"method">>, JStr(<<request.method>>)>>,
     << <<"headers">>, JsonDumps(JDict(HeadersDict(request.headers)))>>,
     << <<"body">>, IF body # <<>> THEN JStr(B64Encode(body)) ELSE <<"null">>>> >>

\* ---- what the broker answers
J_response == "{\"type\": \"response\", \"status\": "
J_headers == ", \"headers\": "
J_body == ", \"body\": \""
J_bodyNull == ", \"body\": null}"
J_noMessage == "{\"type\": \"error\"}"
\* the header objects of the replies, as written and as parsed
ReplyHeaderTable ==
  << <<"{}", <<>>>>,
     <<"{\"Content-Type\": \"t\", \"Content-Length\": \"2\"}",
       << <<N_Content_Type, <<"t">>>>, <<N_Content_Length, <<"2">>>> >>>> >>
ReplyStatuses == {200, 404}
ReplyBodies == {<<>>, <<104, 10>>}
ReplyLines ==
  {<<J_response>> \o DecStr(s) \o <<J_headers, ReplyHeaderTable[h][1], J_body>>
     \o B64Encode(b) \o <<J_strEnd>> :
       s \in ReplyStatuses, h \in 1..Len(ReplyHeaderTable), b \in ReplyBodies}
    \cup {<<J_response>> \o DecStr(200) \o <<J_headers, "{}", J_bodyNull>>}
    \cup {<<J_error>> \o <<"boom">> \o <<J_strEnd>>, <<J_noMessage>>,
          <<"{oops">>, <<>>}
\* the reply bytes: a line, its line feed or not, and possibly more after it
FetchWires ==
  {l \o t : l \in ReplyLines, t \in {<<>>, <<NL>>, <<NL, J_noMessage, NL>>}}

\* buffer.strip()
RECURSIVE Strip(_)
Strip(str) ==
  LET white == {" ", "\t", "\r", NL} IN
  IF Len(str) = 0 THEN str
  ELSE IF str[1] \in white THEN Strip(Tail(str))
  ELSE IF str[Len(str)] \in white THEN Strip(SubSeq(str, 1, Len(str) - 1))
  ELSE str

NoReply ==
  [type |-> "raise", status |-> 0, headers |-> <<>>, body |-> <<>>,
   message |-> <<>>]
\* res = json.loads(text) and the reads of its members: a record, with
\* type "raise" when json.loads or res["type"] raises
FetchLoads(text) ==
  LET n == Len(text)
      hdr(i) == CHOOSE k \in 1..Len(ReplyHeaderTable) :
                  ReplyHeaderTable[k][1] = text[i]
      isHdr(i) == \E k \in 1..Len(ReplyHeaderTable) :
                    ReplyHeaderTable[k][1] = text[i]
      \* the place of J_headers, after the digits of the status
      at == IF \E i \in 1..n : text[i] = J_headers
            THEN CHOOSE i \in 1..n : text[i] = J_headers ELSE 0
  IN
  IF n = 0 \/ (\E i \in 1..n : text[i] = NL) THEN NoReply
  ELSE IF text = <<J_noMessage>>
  THEN [NoReply EXCEPT !.type = "error", !.message = <<"Proxy Error">>]
  ELSE IF n >= 2 /\ text[1] = J_error /\ text[n] = J_strEnd
  THEN [NoReply EXCEPT !.type = "error", !.message = SubSeq(text, 2, n - 1)]
  ELSE IF /\ n >= 5 /\ text[1] = J_response /\ at > 2 /\ at + 2 <= n
          /\ \A i \in 2..(at - 1) : IsDigit(text[i])
          /\ isHdr(at + 1)
  THEN IF text[at + 2] = J_body /\ text[n] = J_strEnd /\ n > at + 2
       THEN [type |-> "response", status |-> ParseDec(SubSeq(text, 2, at - 1)),
             headers |-> ReplyHeaderTable[hdr(at + 1)][2],
             body |-> SubSeq(text, at + 3, n - 1), message |-> <<>>]
       ELSE IF text[at + 2] = J_bodyNull /\ n = at + 2
       THEN [type |-> "response", status |-> ParseDec(SubSeq(text, 2, at - 1)),
             headers |-> ReplyHeaderTable[hdr(at + 1)][2],
             body |-> <<"null">>, message |-> <<>>]
       ELSE NoReply
  ELSE NoReply

\* the header lines do_ANY copies to its caller
FetchRelayedHeaders(hs) ==
  SelectSeq(hs, LAMBDA e : Lower(e[1]) \notin Stripped)

FetchResponse(status, hs, bytes) ==
  [kind |-> "response", status |-> status, message |-> <<>>, headers |-> hs,
   body |-> bytes]

\* lines 54-73 of do_ANY on the buffer read: the responses written to the
\* HTTP caller
FetchAnswer(buffer) ==
  LET reply == FetchLoads(Strip(buffer)) IN
  IF reply.type = "raise"
  THEN <<ErrorResponse(502, <<"json error">>)>>
  ELSE IF reply.type = "response"
  THEN IF reply.body = <<"null">> \/ B64Raises(reply.body)
       THEN <<FetchResponse(reply.status, FetchRelayedHeaders(reply.headers),
                            <<>>),
              ErrorResponse(502, <<"b64decode error">>)>>
       ELSE <<FetchResponse(reply.status, FetchRelayedHeaders(reply.headers),
                            B64Decode(reply.body))>>
  ELSE <<ErrorResponse(502, reply.message)>>

FetchOff ==
  /\ fpc = "off"
  /\ freq = NoFetch
  /\ fsent = <<>>
  /\ fconns = 0
  /\ fwire = <<>>
  /\ fbuf = <<>>
  /\ fcaller = <<>>

\* an HTTP request reaches do_ANY
FetchStart ==
  /\ fpc = "start"
  /\ freq \in FetchRequests
  /\ fsent = <<>>
  /\ fconns = 0
  /\ fwire = <<>>
  /\ fbuf = <<>>
  /\ fcaller = <<>>

\* int(self.headers.get("Content-Length", 0)) raises: 502, nothing is sent
FetchBadLength ==
  /\ fpc = "start"
  /\ ~IsInt(HeaderGet(freq.headers, N_Content_Length, <<"0">>))
  /\ fcaller' = Append(fcaller, ErrorResponse(502, <<"invalid literal">>))
  /\ fpc' = "done"
  /\ UNCHANGED <<freq, fsent, fconns, fwire, fbuf>>

\* client.connect(BRIDGE_SOCK); client.sendall((json.dumps(req) + "\n")...);
\* the broker's whole reply is fixed from here on
FetchConnect ==
  /\ fpc = "start"
  /\ IsInt(HeaderGet(freq.headers, N_Content_Length, <<"0">>))
  /\ fconns' = fconns + 1
  /\ fsent' = fsent \o JsonDumps(FetchEnvelope(freq)) \o <<NL>>
  /\ fwire' \in FetchWires
  /\ fpc' = "reading"
  /\ UNCHANGED <<freq, fbuf, fcaller>>

\* client.connect raises: 502
FetchConnectFail ==
  /\ fpc = "start"
  /\ IsInt(HeaderGet(freq.headers, N_Content_Length, <<"0">>))
  /\ fcaller' = Append(fcaller, ErrorResponse(502, <<"connect error">>))
  /\ fpc' = "done"
  /\ UNCHANGED <<freq, fsent, fconns, fwire, fbuf>>

\* data = client.recv(4096) returns the next n bytes; the loop ends at the
\* first line feed in the buffer and the reply is answered
FetchRecv ==
  /\ fpc = "reading"
  /\ \E n \in 1..Len(fwire) :
       LET buffer == fbuf \o SubSeq(fwire, 1, n) IN
       /\ fwire' = SubSeq(fwire, n + 1, Len(fwire))
       /\ fbuf' = buffer
       /\ IF \E i \in 1..Len(buffer) : buffer[i] = NL
          THEN /\ fcaller' = fcaller \o FetchAnswer(buffer)
               /\ fpc' = "done"
          ELSE UNCHANGED <<fcaller, fpc>>
  /\ UNCHANGED <<freq, fsent, fconns>>

\* recv returns b"": the loop ends and what was read is answered
FetchEof ==
  /\ fpc = "reading"
  /\ fwire = <<>>
  /\ fcaller' = fcaller \o FetchAnswer(fbuf)
  /\ fpc' = "done"
  /\ UNCHANGED <<freq, fsent, fconns, fwire, fbuf>>

\* recv raises (connection reset): 502
FetchRecvFail ==
  /\ fpc = "reading"
  /\ fcaller' = Append(fcaller, ErrorResponse(502, <<"recv error">>))
  /\ fpc' = "done"
  /\ UNCHANGED <<freq, fsent, fconns, fwire, fbuf>>

FetchStep ==
  \/ FetchBadLength
  \/ FetchConnect
  \/ FetchConnectFail
  \/ FetchRecv
  \/ FetchEof
  \/ FetchRecvFail

(***************************************************************************)
(* Listeners: how each program accepts and serves its connections          *)
(*   host_proxy.py, http_proxy.py, http_to_unix.py: HTTPServer(...)        *)
(*   .serve_forever() handles one request at a time, in the thread that    *)
(*   accepts; proxy_bridge.py: the accept loop opens the unix connection   *)
(*   itself and then starts the two pipe threads.                          *)
(***************************************************************************)
Listeners == {"host_proxy", "http_proxy", "http_to_unix", "proxy_bridge"}
Clients == 1..MaxClients
\* the program starts threads of its own for an accepted connection
StartsThreads(kind) == kind = "proxy_bridge"

ListenerOff ==
  /\ lkind = "off"
  /\ lcur = 0
  /\ lconn = [c \in Clients |-> "none"]

\* after bind/listen: the main thread is in accept
ListenerStart ==
  /\ lkind \in Listeners
  /\ lcur = 0
  /\ lconn = [c \in Clients |-> "none"]

\* a client connects to the listening port: the kernel queues the connection
ClientConnect(c) ==
  /\ lconn[c] = "none"
  /\ lconn' = [lconn EXCEPT ![c] = "queued"]
  /\ UNCHANGED <<lkind, lcur>>

\* the main thread, in accept, takes a queued connection and works on it
\* itself: the HTTP handler (do_ANY), or the bridge's unix_conn.connect
ListenerAccept(c) ==
  /\ lcur = 0
  /\ lconn[c] = "queued"
  /\ lcur' = c
  /\ lconn' = [lconn EXCEPT ![c] = "handling"]
  /\ UNCHANGED lkind

\* a socket call of the main thread's work on c never returns: urlopen or
\* rfile.read (host_proxy), client.recv (http_proxy, http_to_unix), connect
MainBlocks(c) ==
  /\ lcur = c
  /\ lconn[c] = "handling"
  /\ lconn' = [lconn EXCEPT ![c] = "blocked"]
  /\ UNCHANGED <<lkind, lcur>>

\* the main thread's work on c ends and it goes back to accept: the handler
\* has answered, or the bridge has started the pipe threads of c
MainReturns(c) ==
  /\ lcur = c
  /\ lconn[c] = "handling"
  /\ lconn' = [lconn EXCEPT ![c] = IF StartsThreads(lkind) THEN "relaying"
                                   ELSE "served"]
  /\ lcur' = 0
  /\ UNCHANGED lkind

\* a pipe thread of c blocks in recv or sendall and never returns
ThreadBlocks(c) ==
  /\ lconn[c] = "relaying"
  /\ lconn' = [lconn EXCEPT ![c] = "blocked"]
  /\ UNCHANGED <<lkind, lcur>>

\* the pipe threads of c end
ThreadsEnd(c) ==
  /\ lconn[c] = "relaying"
  /\ lconn' = [lconn EXCEPT ![c] = "served"]
  /\ UNCHANGED <<lkind, lcur>>

ListenerStep ==
  \E c \in Clients :
    \/ ClientConnect(c)
    \/ ListenerAccept(c)
    \/ MainBlocks(c)
    \/ MainReturns(c)
    \/ ThreadBlocks(c)
    \/ ThreadsEnd(c)

(***************************************************************************)
(* Tunnel Bridge start-up: proxy_bridge.py, bind and listen                *)
(***************************************************************************)
Ports == 1..MaxPort

StartOff ==
  /\ startPc = "off"
  /\ tcp_port = 0
  /\ inUse = {}
  /\ tcp_server = 0
  /\ printed = <<>>

\* __main__: port = int(sys.argv[1]); some local ports are taken by others
StartBegin ==
  /\ startPc = "bind"
  /\ tcp_port \in Ports
  /\ inUse \in SUBSET Ports
  /\ tcp_server = 0
  /\ printed = <<>>

\* tcp_server.bind(("127.0.0.1", tcp_port)); listen(10); print(...)
BindOk ==
  /\ startPc = "bind"
  /\ tcp_port \notin inUse
  /\ tcp_server' = tcp_port
  /\ inUse' = inUse \cup {tcp_port}
  /\ printed' = Append(printed, <<"[TCP Bridge] Listening on 127.0.0.1:",
                                  tcp_port>>)
  /\ startPc' = "listening"
  /\ UNCHANGED tcp_port

\* bind raises OSError (address already in use): nothing catches it, the
\* interpreter prints the traceback and exits
BindFail ==
  /\ startPc = "bind"
  /\ tcp_port \in inUse
  /\ startPc' = "exited"
  /\ UNCHANGED <<tcp_port, inUse, tcp_server, printed>>

StartStep == BindOk \/ BindFail

(***************************************************************************)
(* The body encoding on its own: a body is encoded into a request line     *)
(* (http_proxy.py) and an encoded body is decoded by the two readers       *)
(* (http_proxy.py, shim.py).                                               *)
(***************************************************************************)
BodyBytes == {0, 10, 97, 255}
ByteStrings == UNION {[1..n -> BodyBytes] : n \in 0..MaxBody}

\* the request of an HTTP caller that posts the body B
PostOf(B) ==
  [method |-> "POST", path |-> <<"/", "v">>,
   headers |-> << <<N_Content_Length, DecStr(Len(B))>> >>, body |-> B]

CodecOff ==
  /\ cpc = "off"
  /\ cbody = <<>>
  /\ ctext = <<>>
  /\ cline = <<>>
  /\ cback = <<>>

CodecStart ==
  /\ cpc = "plain"
  /\ cbody \in ByteStrings
  /\ ctext = <<>>
  /\ cline = <<>>
  /\ cback = <<>>

\* http_proxy.py: base64.b64encode(body).decode(), and the line written for
\* the request that has this body
CodecEncode ==
  /\ cpc = "plain"
  /\ ctext' = B64Encode(cbody)
  /\ cline' = JsonDumps(FetchEnvelope(PostOf(cbody))) \o <<NL>>
  /\ cpc' = "encoded"
  /\ UNCHANGED <<cbody, cback>>

\* http_proxy.py: a response whose body is the text is answered
CodecDecodeFetch ==
  /\ cpc = "encoded"
  /\ LET answer == FetchAnswer(<<J_response>> \o DecStr(200)
                                 \o <<J_headers, "{}", J_body>> \o ctext
                                 \o <<J_strEnd, NL>>)
     IN cback' = answer[Len(answer)].body
  /\ cpc' = "decoded"
  /\ UNCHANGED <<cbody, ctext, cline>>

\* shim.py: a stdout message whose data is the text is dispatched
CodecDecodeShim ==
  /\ cpc = "encoded"
  /\ LET st == Dispatch(<<J_stdout>> \o ctext \o <<J_strEnd>>,
                        [buf |-> <<>>, out |-> <<>>, err |-> <<>>,
                         diag |-> <<>>, code |-> -1, n |-> 0])
     IN cback' = st.out
  /\ cpc' = "decoded"
  /\ UNCHANGED <<cbody, ctext, cline>>

CodecStep == CodecEncode \/ CodecDecodeFetch \/ CodecDecodeShim

(***************************************************************************)
(* The headers of a relayed response on their own: the loop over the       *)
(* upstream headers in host_proxy.py and http_proxy.py.                    *)
(***************************************************************************)
RelayKinds == {"host_proxy", "http_proxy"}
UpNames == {N_Content_Type, N_CONTENT_LENGTH, N_content_length,
            N_Transfer_Encoding, N_content_encoding, N_X_Content_Length}
UpLines == {<<n, <<"v">>>> : n \in UpNames}
UpLists == UNION {[1..n -> UpLines] : n \in 0..MaxHdrs}

\* res.getheaders() is a list of pairs; res["headers"] is a dict: no key twice
DistinctNames(hs) ==
  \A i, j \in 1..Len(hs) : hs[i][1] = hs[j][1] => i = j

RelayOff ==
  /\ hpc = "off"
  /\ hkind = "none"
  /\ hup = <<>>
  /\ hsent = <<>>

RelayStart ==
  /\ hpc = "read"
  /\ hkind \in RelayKinds
  /\ hup \in UpLists
  /\ hkind = "http_proxy" => DistinctNames(hup)
  /\ hsent = <<>>

\* host_proxy.py: for k, v in res.getheaders(): ... self.send_header(k, v)
RelayHost ==
  /\ hpc = "read"
  /\ hkind = "host_proxy"
  /\ hsent' = RelayedHeaders(hup)
  /\ hpc' = "sent"
  /\ UNCHANGED <<hkind, hup>>

\* http_proxy.py: for k, v in res["headers"].items(): ... self.send_header(k, v)
RelayFetch ==
  /\ hpc = "read"
  /\ hkind = "http_proxy"
  /\ hsent' = FetchRelayedHeaders(hup)
  /\ hpc' = "sent"
  /\ UNCHANGED <<hkind, hup>>

RelayStep == RelayHost \/ RelayFetch

(***************************************************************************)
(* Specifications: one per program                                         *)
(***************************************************************************)
\* the broker is not part of a bridge run
BrokerOff == BrokerIdle /\ keys = [r \in Runs |-> CleanKeys("0")]
\* the bridge is not part of a broker run
BridgeOff == BridgeIdle /\ quota = 0

\* after bind/listen: blocked in the first accept
InitBridge ==
  /\ BridgeIdle
  /\ quota = MaxTraffic
  /\ BrokerOff
  /\ ShimOff
  /\ FetchOff
  /\ ListenerOff
  /\ StartOff
  /\ CodecOff
  /\ RelayOff

\* the bridge process runs alone: the other programs' state stays as it is
NextBridge == BridgeStep /\ UNCHANGED <<brokerVars, shimVars, fetchVars, listenerVars,
               startVars, codecVars,
                   relayVars>>

SpecBridge == InitBridge /\ [][NextBridge]_vars

\* One tunnel: the state after the first accept and connect, both workers
\* started; only this connection's steps.
InitTunnel ==
  /\ acceptPc = "accept"
  /\ cur = 0
  /\ nAccepted = 1
  /\ client_conn = [c \in Conns |-> IF c = 1 THEN "open" ELSE "none"]
  /\ unix_conn = [c \in Conns |-> IF c = 1 THEN "open" ELSE "none"]
  /\ endpoint = [c \in Conns |-> [s \in Sides |->
                   IF c = 1 THEN "open" ELSE "none"]]
  /\ sent = [c \in Conns |-> EmptyDirs]
  /\ buf = [c \in Conns |-> EmptyDirs]
  /\ data = [c \in Conns |-> EmptyDirs]
  /\ got = [c \in Conns |-> EmptyDirs]
  /\ wpc = [c \in Conns |-> [d \in Dirs |-> IF c = 1 THEN "recv" ELSE "none"]]
  /\ wend = [c \in Conns |-> [d \in Dirs |-> ""]]
  /\ quota = 2 * MaxBytes
  /\ BrokerOff
  /\ ShimOff
  /\ FetchOff
  /\ ListenerOff
  /\ StartOff
  /\ CodecOff
  /\ RelayOff

NextTunnel == ConnStep(1) /\ UNCHANGED <<brokerVars, shimVars, fetchVars, listenerVars,
               startVars, codecVars,
                   relayVars>>

SpecTunnel == InitTunnel /\ [][NextTunnel]_vars

\* the same with the two pipe threads scheduled fairly; nothing is assumed
\* of the remote applications
PipeStep(c, d) == PipeRecv(c, d) \/ PipeSend(c, d) \/ PipeClose(c, d)
SpecTunnelFair ==
  /\ InitTunnel
  /\ [][NextTunnel]_vars
  /\ WF_vars(PipeStep(1, "c2u") /\ UNCHANGED <<brokerVars, shimVars, fetchVars, listenerVars,
               startVars, codecVars,
                   relayVars>>)
  /\ WF_vars(PipeStep(1, "u2c") /\ UNCHANGED <<brokerVars, shimVars, fetchVars, listenerVars,
               startVars, codecVars,
                   relayVars>>)

\* the module-level keys are read from the environment once, at start
InitBroker ==
  /\ BrokerIdle
  /\ keys \in KeyChoices
  /\ BridgeOff
  /\ ShimOff
  /\ FetchOff
  /\ ListenerOff
  /\ StartOff
  /\ CodecOff
  /\ RelayOff

NextBroker == BrokerStep /\ UNCHANGED <<bridgeVars, shimVars, fetchVars, listenerVars,
               startVars, codecVars,
                   relayVars>>

SpecBroker == InitBroker /\ [][NextBroker]_vars

\* one run of an envelope client
InitEnvelope ==
  /\ \/ ShimStart /\ FetchOff
     \/ FetchStart /\ ShimOff
  /\ BridgeOff
  /\ BrokerOff
  /\ ListenerOff
  /\ StartOff
  /\ CodecOff
  /\ RelayOff

NextEnvelope ==
  \/ ShimStep /\ UNCHANGED <<bridgeVars, brokerVars, fetchVars, listenerVars,
               startVars, codecVars,
                   relayVars>>
  \/ FetchStep /\ UNCHANGED <<bridgeVars, brokerVars, shimVars, listenerVars,
               startVars, codecVars,
                   relayVars>>

SpecEnvelope == InitEnvelope /\ [][NextEnvelope]_vars

\* the listener of one of the programs and the clients that connect to it
InitListener ==
  /\ ListenerStart
  /\ BridgeOff
  /\ BrokerOff
  /\ ShimOff
  /\ FetchOff
  /\ StartOff
  /\ CodecOff
  /\ RelayOff

NextListener ==
  ListenerStep
    /\ UNCHANGED <<bridgeVars, brokerVars, shimVars, fetchVars, startVars,
                   codecVars,
                   relayVars>>

SpecListener == InitListener /\ [][NextListener]_vars

\* the start of the Tunnel Bridge process
InitStart ==
  /\ StartBegin
  /\ BridgeOff
  /\ BrokerOff
  /\ ShimOff
  /\ FetchOff
  /\ ListenerOff
  /\ CodecOff
  /\ RelayOff

NextStart ==
  StartStep
    /\ UNCHANGED <<bridgeVars, brokerVars, shimVars, fetchVars, listenerVars,
                   codecVars,
                   relayVars>>

SpecStart == InitStart /\ [][NextStart]_vars

\* one body encoded and decoded
InitCodec ==
  /\ CodecStart
  /\ BridgeOff
  /\ BrokerOff
  /\ ShimOff
  /\ FetchOff
  /\ ListenerOff
  /\ StartOff
  /\ RelayOff

NextCodec ==
  CodecStep
    /\ UNCHANGED <<bridgeVars, brokerVars, shimVars, fetchVars, listenerVars,
                   startVars, relayVars>>

SpecCodec == InitCodec /\ [][NextCodec]_vars

\* the headers of one relayed response
InitRelay ==
  /\ RelayStart
  /\ BridgeOff
  /\ BrokerOff
  /\ ShimOff
  /\ FetchOff
  /\ ListenerOff
  /\ StartOff
  /\ CodecOff

NextRelay ==
  RelayStep
    /\ UNCHANGED <<bridgeVars, brokerVars, shimVars, fetchVars, listenerVars,
                   startVars, codecVars>>

SpecRelay == InitRelay /\ [][NextRelay]_vars

(***************************************************************************)
(* Claims on the Tunnel Bridge                                             *)
(***************************************************************************)
\* connection c was accepted and its unix socket could not be opened
ConnFailed(c) ==
  client_conn[c] # "none" /\ unix_conn[c] = "none" /\ cur # c

\* both workers of connection c have ended
TunnelDone(c) == wpc[c]["c2u"] = "done" /\ wpc[c]["u2c"] = "done"

\* C1: the accept loop survives per-connection errors: after an accepted
\* connection failed to open its paired transport connection, the bridge is
\* still in its accept loop, accepting later connections.
C1_AcceptLoopSurvives ==
  \A c \in Conns : ConnFailed(c) => acceptPc # "exited"

\* C2 (as claimed): on a finished tunnel, every side that is still reading
\* has observed exactly the byte sequence the other side sent, also when the
\* other direction reached end-of-stream first.
C2_RoundTripIdentical ==
  \A c \in Conns, d \in Dirs :
    (TunnelDone(c) /\ endpoint[c][DstSide(d)] # "closed")
      => got[c][d] = sent[c][d]

\* C2 (amended): in each direction, whatever the chunk boundaries, the bytes
\* handed to the other side are an in-order prefix of the bytes sent; no byte
\* is lost, duplicated or reordered while the worker has met no error (sent =
\* delivered, then held, then buffered); and once the worker has read
\* end-of-stream everything sent in its direction has been delivered.
C2_PrefixInOrder ==
  \A c \in Conns, d \in Dirs :
    /\ IsPrefix(got[c][d], sent[c][d])
    /\ wend[c][d] # "error" => sent[c][d] = got[c][d] \o data[c][d] \o buf[c][d]
    /\ wend[c][d] = "eof" => got[c][d] = sent[c][d]

\* C2 witness: the client's two different bytes went through whole and its
\* worker read end-of-stream, while the reply direction was cut short for a
\* client that is still reading.
C2_Witness ==
  /\ TunnelDone(1)
  /\ wend[1]["c2u"] = "eof"
  /\ got[1]["c2u"] = <<0, 1>>
  /\ endpoint[1]["cli"] = "shut"
  /\ Len(got[1]["u2c"]) = 1
  /\ Len(sent[1]["u2c"]) = 2

\* C3: connections are independent: when connection i failed (its transport
\* connection could not be opened), no worker of another connection j has
\* been stopped and no socket of j has been closed by anything but j's own
\* workers.
C3_ConnectionsIndependent ==
  \A i \in Conns, j \in Conns :
    (i # j /\ ConnFailed(i)) => \A d \in Dirs : wpc[j][d] # "killed"

\* both workers of c have ended and both of its sockets are closed
Released(c) ==
  /\ \A d \in Dirs : wpc[c][d] = "done"
  /\ client_conn[c] = "closed"
  /\ unix_conn[c] = "closed"

\* C15: once an end of the tunnel's connection is closed by the remote
\* application, eventually both pipe workers have ended and both sockets of
\* the pair are closed.
C15_PairReleased ==
  \A s \in Sides : (endpoint[1][s] = "closed") ~> Released(1)

(***************************************************************************)
(* Claims on the Host Broker                                               *)
(***************************************************************************)
\* the names under which a provider takes a credential, in lower case
AuthNames == {N_x_goog_api_key, Lower(N_Authorization), N_x_api_key}
NamedLike(hs, name) == {i \in 1..Len(hs) : Lower(hs[i][1]) = Lower(name)}

\* the path selects a provider
Matches(path) ==
  \/ StartsWith(path, P_google)
  \/ StartsWith(path, P_openai)
  \/ StartsWith(path, P_anthropic)

\* the authority of a URL: what follows the scheme up to the first "/", "?"
\* or "#"
Authority(url) ==
  LET stops == {i \in 3..Len(url) : url[i] \in {"/", "?", "#"}}
      end == IF stops = {} THEN Len(url)
             ELSE (CHOOSE i \in stops : \A j \in stops : i <= j) - 1
  IN SubSeq(url, 2, end)

\* the authority the provider table gives for a path
RealAuthority(path) ==
  IF StartsWith(path, P_google) THEN <<U_google[2]>>
  ELSE IF StartsWith(path, P_openai) THEN <<U_openai[2]>>
  ELSE <<U_anthropic[2]>>

\* run r has sent request i out and its provider has received it
Reached(r, i) ==
  /\ i = Len(upstream[r])
  /\ upres[r].kind = "response"
  /\ Authority(upstream[r][i].url) = RealAuthority(breq.path)

\* C4: every request the broker hands upstream carries exactly the
\* documented credential header of its provider, with the broker's value, and
\* neither a Host header of the caller nor any other auth header, whatever
\* the caller sent.
C4_OnlyDocumentedCredential ==
  \A r \in Runs : \A i \in 1..Len(upstream[r]) :
    LET hs == upstream[r][i].headers IN
    Reached(r, i) =>
    /\ \E n \in NamedLike(hs, auth_header[r]) :
         NamedLike(hs, auth_header[r]) = {n} /\ hs[n][2] = auth_value[r]
    /\ NamedLike(hs, N_Host) = {}
    /\ \A a \in AuthNames :
         a # Lower(auth_header[r]) => NamedLike(hs, a) = {}

\* C5: every request that went out with the credential and was answered went
\* to a URL that names exactly the real authority of the matched provider.
C5_RealAuthorityOnly ==
  \A r \in Runs : \A i \in 1..Len(upstream[r]) :
    (i = Len(upstream[r]) /\ upres[r].kind = "response")
      => Authority(upstream[r][i].url) = RealAuthority(breq.path)

\* C6: a handled request whose path matches no provider prefix is answered
\* with 404 and nothing else, and no outbound call is made for it, whatever
\* its headers.
C6_UnmatchedIs404 ==
  \A r \in Runs :
    (bpc[r] = "done" /\ breq.method \in HandledMethods /\ ~Matches(breq.path))
      => /\ Len(caller[r]) = 1
         /\ caller[r][1].status = 404
         /\ upstream[r] = <<>>
         /\ netcalls[r] = 0

\* C7 (as claimed): whatever status the upstream answers (4xx and 5xx too),
\* the caller is given that status and that body.
C7_RelaysEveryStatus ==
  \A r \in Runs :
    (bpc[r] = "done" /\ upres[r].kind = "response" /\ upres[r].read # "failed")
      => /\ Len(caller[r]) = 1
         /\ caller[r][1].status = upres[r].status
         /\ caller[r][1].body = upres[r].body

\* C7 (amended): an upstream answer with a 2xx status whose body is read
\* whole is relayed to the caller with that status and that body, and nothing
\* else is written; an upstream answer with any other status is not relayed:
\* the caller gets a single 502 whose message names the upstream status.
C7_RelaysSuccessOnly ==
  \A r \in Runs :
    (bpc[r] = "done" /\ upres[r].kind = "response")
      => IF upres[r].status \in 200..299
         THEN upres[r].read = "ok" =>
                /\ Len(caller[r]) = 1
                /\ caller[r][1].kind = "relay"
                /\ caller[r][1].status = upres[r].status
                /\ caller[r][1].body = upres[r].body
         ELSE caller[r] =
                <<ErrorResponse(502, <<"HTTP Error ", CodeStr(upres[r].status),
                                       ": ", "reason">>)>>

\* C7 witness: a 200 answer with a body has been relayed whole
C7_Witness ==
  /\ bpc[1] = "done"
  /\ upres[1].kind = "response" /\ upres[1].status = 200
  /\ upres[1].read = "ok"
  /\ Len(caller[1]) = 1
  /\ caller[1][1].status = 200 /\ caller[1][1].body = <<"b">>

\* C8: two runs that get the same request and the same upstream behaviour
\* and differ only in the credential values write the same messages to the
\* caller.
C8_MessagesIgnoreCredentials == caller[1] = caller[2]

(***************************************************************************)
(* Claims on the envelope clients                                          *)
(***************************************************************************)
\* the messages of chunk lines then an exit line that is whole on the wire
ExitAt(msgs) ==
  IF \E k \in 1..Len(msgs) : msgs[k].type = "exit"
  THEN CHOOSE k \in 1..Len(msgs) :
         msgs[k].type = "exit" /\ \A j \in 1..(k - 1) : msgs[j].type # "exit"
  ELSE 0
ChunksThenExit(script) ==
  LET k == ExitAt(script.msgs) IN
  /\ k > 0
  /\ \A j \in 1..(k - 1) : script.msgs[j].type \in {"stdout", "stderr"}
  /\ (k < Len(script.msgs) \/ script.nl)
\* the bytes the remote wrote to one stream, in send order
RECURSIVE StreamOf(_, _)
StreamOf(msgs, type) ==
  IF Len(msgs) = 0 THEN <<>>
  ELSE (IF msgs[1].type = type THEN msgs[1].data ELSE <<>>)
         \o StreamOf(Tail(msgs), type)
\* how many bytes of the reply the shim has read
Received == Len(Wire(sscript.msgs, sscript.nl)) - Len(swire)

\* C9: when the broker sends stdout/stderr chunk lines followed by an exit
\* line with code c, then however the reads cut or join the lines the shim
\* has at every moment written a prefix of the remote's stdout bytes to
\* stdout and a prefix of the remote's stderr bytes to stderr, has handled no
\* message after the exit line, and once the exit line has been read it has
\* written both streams whole and exited with c.
C9_ChunksInOrderThenExit ==
  (spc \in {"reading", "exited"} /\ sconns = 1 /\ ChunksThenExit(sscript))
    => LET k == ExitAt(sscript.msgs)
           pre == SubSeq(sscript.msgs, 1, k - 1)
       IN
       /\ IsPrefix(sst.out, StreamOf(pre, "stdout"))
       /\ IsPrefix(sst.err, StreamOf(pre, "stderr"))
       /\ sst.n <= k
       /\ Received >= Len(Wire(SubSeq(sscript.msgs, 1, k), TRUE))
            => /\ spc = "exited"
               /\ sst.code = sscript.msgs[k].code
               /\ sst.out = StreamOf(pre, "stdout")
               /\ sst.err = StreamOf(pre, "stderr")
               /\ sst.n = k

\* C9 witness: the remote wrote "a" to stdout, "b\n" to stderr, exited 7 and
\* the broker sent one more chunk after the exit line; the shim has written
\* the two streams and exited 7
C9_Witness ==
  /\ spc = "exited"
  /\ ChunksThenExit(sscript)
  /\ ExitAt(sscript.msgs) = 3
  /\ Len(sscript.msgs) = 4
  /\ sscript.msgs[1].type = "stdout" /\ sscript.msgs[2].type = "stderr"
  /\ sst.out = <<97>> /\ sst.err = <<98, 10>>
  /\ sst.code = 7
  /\ sst.n = 3

\* `wire` is one JSON object that has the type tag, then a line feed, and no
\* other line feed
HasTag(wire, tag) ==
  Contains(wire, JStr(<<"type">>) \o <<": ">> \o JStr(<<tag>>))
OneTaggedLine(wire, tag) ==
  /\ Len(wire) >= 3
  /\ wire[1] = "{" /\ wire[Len(wire) - 1] = "}" /\ wire[Len(wire)] = NL
  /\ \A i \in 1..(Len(wire) - 1) : wire[i] # NL
  /\ HasTag(wire, tag)

\* C10: what an envelope client has written to the transport for a request
\* is one JSON object with the client's type tag (command_request for the
\* shim, proxy_fetch for the fetch client) ended by a line feed, on the one
\* connection it opened for this request.
C10_OneTaggedLinePerConnection ==
  /\ spc \in {"reading", "exited"} /\ sconns > 0
       => sconns = 1 /\ OneTaggedLine(ssent, "command_request")
  /\ fpc \in {"reading", "done"} /\ fconns > 0
       => fconns = 1 /\ OneTaggedLine(fsent, "proxy_fetch")

\* chunk lines and lines that cannot be handled, at least one of these, then
\* an exit line that is whole on the wire
SkippedThenExit(script) ==
  LET k == ExitAt(script.msgs) IN
  /\ k > 0
  /\ \A j \in 1..(k - 1) : script.msgs[j] \in ChunkMsgs \cup SkippedMsgs
  /\ \E j \in 1..(k - 1) : script.msgs[j] \in SkippedMsgs
  /\ (k < Len(script.msgs) \/ script.nl)

\* C11: when a line of the reply cannot be parsed or dispatched, the exchange
\* goes on: once the later exit line has been read, the shim has written the
\* data of every well-formed chunk line before it to the matching stream and
\* has exited with the code of that exit line.
C11_BadLineSkipped ==
  (spc \in {"reading", "exited"} /\ sconns = 1 /\ SkippedThenExit(sscript))
    => LET k == ExitAt(sscript.msgs)
           pre == SubSeq(sscript.msgs, 1, k - 1)
       IN
       Received >= Len(Wire(SubSeq(sscript.msgs, 1, k), TRUE))
         => /\ spc = "exited"
            /\ sst.code = sscript.msgs[k].code
            /\ sst.out = StreamOf(pre, "stdout")
            /\ sst.err = StreamOf(pre, "stderr")

\* the reply holds a terminal line (exit or error) with its line feed
CompleteTerminal(script) ==
  \E k \in 1..Len(script.msgs) :
    /\ script.msgs[k].type \in {"exit", "error"}
    /\ (k < Len(script.msgs) \/ script.nl)

\* C12: when the reply ends without a terminal line that has its line feed
\* (no exit or error at all, or one as the last bytes without the line
\* feed) and the transport did not fail, the shim leaves only after it has
\* read the whole reply, without a diagnostic, and its exit code is 0.
C12_EofIsNormalClose ==
  (spc = "exited" /\ sconns = 1 /\ sst.diag = <<>>
     /\ ~CompleteTerminal(sscript))
    => /\ sst.code = 0
       /\ swire = <<>>

\* C12 witness: the reply was a stdout chunk and then an exit 7 message
\* without its line feed; the shim has written the chunk and exited with 0
C12_Witness ==
  /\ spc = "exited"
  /\ Len(sscript.msgs) = 2 /\ ~sscript.nl
  /\ sscript.msgs[1].type = "stdout"
  /\ sscript.msgs[2].type = "exit" /\ sscript.msgs[2].code = 7
  /\ swire = <<>>
  /\ sst.out = <<97>>
  /\ sst.buf # <<>>
  /\ sst.code = 0

\* the first terminal line (exit or error) that has its line feed, 0 if none
TerminalAt(script) ==
  IF CompleteTerminal(script)
  THEN CHOOSE k \in 1..Len(script.msgs) :
         /\ script.msgs[k].type \in {"exit", "error"}
         /\ \A j \in 1..(k - 1) : script.msgs[j].type \notin {"exit", "error"}
  ELSE 0
ShimFailed == <<"[Shim] Failed: ">>

\* C13 (as claimed): the shim exits with 1 and a diagnostic exactly when the
\* connect failed (nothing was sent then) or an error message was handled;
\* every other exchange that ended has the code of the remote's exit message.
C13_OneOnlyOnConnectOrError ==
  spc = "exited"
    => IF sconns = 0
       THEN sst.code = 1 /\ sst.diag # <<>> /\ ssent = <<>>
       ELSE IF sst.diag # <<>> /\ sst.diag[1] = "[Shim Error] "
       THEN sst.code = 1
       ELSE /\ sst.diag = <<>>
            /\ ExitAt(sscript.msgs) > 0
            /\ sst.code = sscript.msgs[ExitAt(sscript.msgs)].code

\* C13 (amended): an exchange that ended is in one of five cases.  The
\* connect failed: code 1, the diagnostic "[Shim] Failed", nothing sent.  A
\* read of the transport failed (recv raised, or the bytes are not text):
\* code 1 and the same diagnostic.  An error message was handled: code 1 and
\* the diagnostic "[Shim Error] <message>".  An exit message was handled: its
\* code, no diagnostic.  The reply ended before any terminal line: code 0, no
\* diagnostic.
C13_ExitCodeCases ==
  spc = "exited"
    => LET t == TerminalAt(sscript) IN
       IF sconns = 0
       THEN sst.code = 1 /\ sst.diag = ShimFailed /\ ssent = <<>>
       ELSE IF sst.diag = ShimFailed
       THEN sst.code = 1
       ELSE IF t > 0 /\ Received >= Len(Wire(SubSeq(sscript.msgs, 1, t), TRUE))
       THEN IF sscript.msgs[t].type = "exit"
            THEN sst.code = sscript.msgs[t].code /\ sst.diag = <<>>
            ELSE /\ sst.code = 1
                 /\ sst.diag = <<"[Shim Error] ">> \o sscript.msgs[t].text
       ELSE sst.code = 0 /\ sst.diag = <<>> /\ swire = <<>>

\* C13 witness: after a stderr chunk the broker sent an error message; the
\* shim has exited with 1 and the message as diagnostic
C13_Witness ==
  /\ spc = "exited"
  /\ Len(sscript.msgs) >= 2
  /\ sscript.msgs[1].type = "stderr"
  /\ sscript.msgs[2].type = "error"
  /\ sst.err = <<98, 10>>
  /\ sst.code = 1
  /\ sst.diag = <<"[Shim Error] ", "boom">>

(***************************************************************************)
(* Claims on the listeners                                                 *)
(***************************************************************************)
\* C14: while the work on one connection is blocked for ever in a socket
\* call, no other connection is kept waiting by it: a connection that is
\* queued at the listener never has the accepting thread held by a blocked
\* call (it would then never be accepted).
C14_BlockedStallsNoOther ==
  \A c \in Clients :
    lconn[c] = "queued" => ~(lcur # 0 /\ lconn[lcur] = "blocked")

(***************************************************************************)
(* Claims on the start of the Tunnel Bridge                                *)
(***************************************************************************)
\* the free port the bridge is to find: the first one from the port asked
\* for, within 16 attempts (0 if none)
NextFree(port, used) ==
  IF \E q \in Ports : q >= port /\ q < port + 16 /\ q \notin used
  THEN CHOOSE q \in Ports :
         /\ q >= port /\ q < port + 16 /\ q \notin used
         /\ \A r \in Ports : (r >= port /\ r < q) => r \in used
  ELSE 0

\* C16: when the port asked for is taken and a later port within the retry
\* bound is free, the bridge ends its start-up bound to the next free port
\* and has printed PORT:<that port>.
C16_BindsNextFreePort ==
  (startPc \in {"listening", "exited"} /\ tcp_port \in inUse \ {tcp_server}
     /\ NextFree(tcp_port, inUse) # 0)
    => /\ startPc = "listening"
       /\ tcp_server = NextFree(tcp_port, inUse \ {tcp_server})
       /\ \E i \in 1..Len(printed) : printed[i] = <<"PORT:", tcp_server>>

SameName(a, b) ==
  Len(a) = Len(b) /\ \A i \in 1..Len(a) : ToLower(a[i]) = ToLower(b[i])
HopByHop(name) ==
  \/ SameName(name, N_content_encoding)
  \/ SameName(name, N_transfer_encoding)
  \/ SameName(name, N_content_length)
\* the upstream lines that are not hop-by-hop, in the upstream's order
RECURSIVE OthersOf(_)
OthersOf(hs) ==
  IF hs = <<>> THEN <<>>
  ELSE (IF HopByHop(hs[1][1]) THEN <<>> ELSE <<hs[1]>>) \o OthersOf(Tail(hs))

\* C18: in a relayed response of the Host Broker and of the fetch client
\* proxy, no header named content-encoding, transfer-encoding or
\* content-length in any letter case is given to the caller, and the other
\* upstream headers are given with their names and values, in their order.
C18_HopByHopStripped ==
  hpc = "sent"
    => /\ \A i \in 1..Len(hsent) : ~HopByHop(hsent[i][1])
       /\ hsent = OthersOf(hup)

\* C18 witness: an upper-case CONTENT-LENGTH between two other headers is
\* dropped and the two others are relayed in order
C18_Witness ==
  /\ hpc = "sent"
  /\ hup = << <<N_X_Content_Length, <<"v">>>>, <<N_CONTENT_LENGTH, <<"v">>>>,
              <<N_Content_Type, <<"v">>>> >>
  /\ hsent = << <<N_X_Content_Length, <<"v">>>>, <<N_Content_Type, <<"v">>>> >>

(***************************************************************************)
(* Claims on the answers of the fetch client proxy                         *)
(***************************************************************************)
\* the first line of a reply: what stands before its first line feed
FirstLine(str) ==
  IF \E i \in 1..Len(str) : str[i] = NL
  THEN SubSeq(str, 1, FirstNewline(str) - 1) ELSE str
\* a line is a response envelope: status, headers and a base64 body
WellFormedResponse(line) ==
  LET reply == FetchLoads(line) IN
  /\ reply.type = "response"
  /\ reply.body # <<"null">>
  /\ ~B64Raises(reply.body)
\* the whole reply of the broker, read or not
FetchReply == fbuf \o fwire

\* C19: the fetch client proxy answers with the broker's status only when
\* the first reply line is a well-formed response envelope; in every other
\* outcome the caller receives a 502 and nothing else; and the handler is
\* never waiting for more bytes once a line feed has been received.
C19_StatusOnlyForResponse ==
  /\ fpc = "done"
       => LET ok == fconns > 0 /\ WellFormedResponse(FirstLine(FetchReply)) IN
          /\ (\E i \in 1..Len(fcaller) : fcaller[i].kind = "response") => ok
          /\ ~ok => /\ Len(fcaller) = 1
                    /\ fcaller[1].kind = "error"
                    /\ fcaller[1].status = 502
  /\ fpc = "reading" => \A i \in 1..Len(fbuf) : fbuf[i] # NL

(***************************************************************************)
(* Claims on the responses written on one exchange                         *)
(***************************************************************************)
\* C20: a handled request gets exactly one response head: once the relayed
\* status line has been written, a later failure in the same handler writes
\* no second (502) response on that exchange.
C20_OneResponseHead ==
  \A r \in Runs :
    /\ Len(caller[r]) <= 1
    /\ bpc[r] = "done" => Len(caller[r]) = 1

====
